---- MODULE Spec2Model ----
(***************************************************************************)
(* Stepwise CART decision-tree builder of src/src/utils/decisionTree.ts.   *)
(*                                                                         *)
(* Numbers.  Feature values are small naturals.  A threshold is the        *)
(* midpoint of two feature values; the model stores twice the midpoint     *)
(* (threshold2 = a + b) and compares 2 * value against it, which is the    *)
(* same comparison.  Impurities and gains are exact fractions              *)
(* [num, den] with den > 0, compared by cross multiplication.              *)
(*                                                                         *)
(* Objects.  A sample is referred to by its position in the data set the   *)
(* build was called with; a tree node by its position in the build's       *)
(* list of created nodes (its key).  The id field of a node is the value   *)
(* the code read from NODE_ID, which is a different thing from the key.    *)
(***************************************************************************)
EXTENDS Integers, Sequences, FiniteSets, TLC

\* ------------------------------------------------------------ bounds
\* samples in a data set, and requests made after a generator has returned
MaxSamples == 3
MaxExtraRequests == 1
\* points of each class that generateData makes (the code makes 50)
VizPerClass == 1
\* animated builds of the visualizer page awaiting a timer at one time
MaxAnimations == 2
\* samples in the data sets of the split search
SearchMaxSamples == 3
\* largest maximum depth and minimum split size entered on the stepping page
StepperMaxDepth == 3
StepperMaxMinSplit == 3
\* samples in a data set that two builds are run on
PairMaxSamples == 3
\* samples in the data sets that the fair caller is checked on exhaustively
LiveMaxSamples == 2
\* samples in the data sets whose trees are classified on
ClassifyMaxSamples == 3
\* samples in the data sets whose feature vectors differ in length
RaggedMaxSamples == 3
\* samples in the data sets whose labels include strings that look like integers
KeyedMaxSamples == 3

\* the inputs tried: two features with values 0 and 1 and two labels, the
\* first sample labelled A (the builder treats the two labels alike);
\* <<maxDepth, minSamplesSplit>> on both sides of what the builder's contract
\* allows
Labels == {"A", "B"}
SampleSet == [features : [{1, 2} -> {0, 1}], label : Labels]
Datasets(least, most) ==
    {d \in UNION {[1..n -> SampleSet] : n \in least..most} :
        d = <<>> \/ d[1].label = "A"}
Params ==
    {<<-1, 1>>, <<2, 0>>, <<0, 1>>, <<1, 1>>, <<2, 1>>, <<0, 3>>, <<1, 3>>, <<2, 3>>}
LiveDepthArgs == {0, 2}
LiveMinSplitArgs == {1, 3}
\* data sets of three samples whose tree has two levels of splits
DeepDatasets ==
    {<<[features |-> <<0, 0>>, label |-> "A"],
       [features |-> <<0, 1>>, label |-> "B"],
       [features |-> <<1, 1>>, label |-> "A"]>>,
     <<[features |-> <<1, 0>>, label |-> "B"],
       [features |-> <<0, 0>>, label |-> "A"],
       [features |-> <<1, 1>>, label |-> "A"]>>}
\* <<maxDepth, minSamplesSplit>> of the trees classified on, and the points
\* asked about: every point a sample can have, and points with too few features
ClassifyParams == {<<2, 1>>}
QueryPoints == {<<>>, <<1>>} \cup [{1, 2} -> {0, 1}]
\* data sets in which two samples have feature vectors of different lengths
RaggedSampleSet ==
    [features : {<<0>>, <<1>>} \cup [{1, 2} -> {0, 1}], label : Labels]
IsRagged(d) ==
    \E i, j \in 1..Len(d) : Len(d[i].features) # Len(d[j].features)
RaggedDatasets(most) ==
    {d \in UNION {[1..n -> RaggedSampleSet] : n \in 2..most} :
        d[1].label = "A" /\ IsRagged(d)}
RaggedParams == {<<2, 1>>, <<1, 3>>}
\* the first scenario of the builder's contract: one feature, A at 0 and 1,
\* B at 10 and 11, maxDepth 3, minSamplesSplit 2; and the data sets of as
\* many samples over the same values and labels
Scenario1Samples ==
    <<[features |-> <<0>>, label |-> "A"], [features |-> <<1>>, label |-> "A"],
      [features |-> <<10>>, label |-> "B"], [features |-> <<11>>, label |-> "B"]>>
Scenario1Args ==
    [samples |-> Scenario1Samples, maxDepth |-> 3, minSamplesSplit |-> 2]
ScenarioSampleSet == [features : [{1} -> {0, 1, 10, 11}], label : Labels]
ScenarioDatasets == [1..Len(Scenario1Samples) -> ScenarioSampleSet]
\* data sets whose labels are A and the integer-like strings 0 and 1
KeyedLabels == {"A", "0", "1"}
KeyedSampleSet == [features : [{1, 2} -> {0, 1}], label : KeyedLabels]
KeyedDatasets(most) == UNION {[1..n -> KeyedSampleSet] : n \in 1..most}
KeyedParams == {<<1, 1>>}
\* the data set of the stepping page, feature values in tenths
TOY_IRIS ==
    << [features |-> <<51, 35, 14, 2>>, label |-> "setosa"],
       [features |-> <<49, 30, 14, 2>>, label |-> "setosa"],
       [features |-> <<62, 34, 54, 23>>, label |-> "virginica"],
       [features |-> <<59, 30, 51, 18>>, label |-> "virginica"],
       [features |-> <<60, 22, 40, 10>>, label |-> "versicolor"],
       [features |-> <<55, 23, 40, 13>>, label |-> "versicolor"],
       [features |-> <<57, 28, 41, 13>>, label |-> "versicolor"],
       [features |-> <<54, 39, 17, 4>>, label |-> "setosa"] >>
\* class A lies bottom left or top right, class B top left or bottom right;
\* 1 is a coordinate Math.random() * 4 + 1 can give, 6 one of Math.random() * 4 + 6
PointsA == {<<1, 1>>, <<6, 6>>}
PointsB == {<<1, 6>>, <<6, 1>>}
\* what generateData can make: the points of class A, then those of class B
GeneratedData ==
    {[i \in 1..(2 * VizPerClass) |->
        [x |-> c[i][1], y |-> c[i][2],
         label |-> IF i <= VizPerClass THEN "A" ELSE "B", id |-> i - 1]] :
     c \in {f \in [1..(2 * VizPerClass) -> PointsA \cup PointsB] :
               \A i \in 1..(2 * VizPerClass) :
                  f[i] \in IF i <= VizPerClass THEN PointsA ELSE PointsB}}
PairDepthArgs == {1, 2}
PairMinSplitArgs == {2}

Builds == {1, 2}

\* ------------------------------------------------------------ values
\* an optional field that was never assigned (undefined), and null
Undefined == -2
Null == -1
UndefinedRat == [num |-> 0, den |-> 0]
\* the midpoint of two values one of which is undefined
NaN == -3

Rat(n, d) == [num |-> n, den |-> d]
RatZero == Rat(0, 1)
RatOne == Rat(1, 1)
RatSub(a, b) == Rat(a.num * b.den - b.num * a.den, a.den * b.den)
RatAdd(a, b) == Rat(a.num * b.den + b.num * a.den, a.den * b.den)
RatMul(a, b) == Rat(a.num * b.num, a.den * b.den)
RatGT(a, b) == a.num * b.den > b.num * a.den
RatEq(a, b) == a.num * b.den = b.num * a.den
RatLE(a, b) == ~RatGT(a, b)

RECURSIVE GCD(_, _)
GCD(a, b) ==
    IF b = 0 THEN a ELSE CHOOSE g \in {GCD(b, r) : r \in {a % b}} : TRUE

\* the fraction in lowest terms: the same number, and the products that
\* compare two gains stay small
Reduced(fraction) ==
    CHOOSE r \in
        {LET g == GCD(IF v.num < 0 THEN -v.num ELSE v.num, v.den) IN
         IF g = 0 THEN v ELSE Rat(v.num \div g, v.den \div g) :
            v \in {fraction}} : TRUE

Range(s) == {s[i] : i \in 1..Len(s)}

\* ------------------------------------------------------------ counts
\* label strings that are canonical array indices: a JavaScript object lists
\* these keys first, in ascending numeric order, then the others in the
\* order they were inserted
IndexKeys == <<"0", "1", "2">>

LabelAt(data, i) == data[i].label

CountOf(data, samples, k) ==
    Cardinality({i \in 1..Len(samples) : LabelAt(data, samples[i]) = k})

\* labels in order of first occurrence in samples
RECURSIVE InsertionKeys(_, _, _)
InsertionKeys(data, samples, seen) ==
    IF samples = <<>> THEN <<>>
    ELSE LET k == LabelAt(data, Head(samples)) IN
         IF k \in seen THEN InsertionKeys(data, Tail(samples), seen)
         ELSE <<k>> \o InsertionKeys(data, Tail(samples), seen \cup {k})

\* for (const k in counts)
OwnKeys(data, samples) ==
    LET ins == InsertionKeys(data, samples, {})
        present == Range(ins)
    IN  SelectSeq(IndexKeys, LAMBDA k : k \in present)
        \o SelectSeq(ins, LAMBDA k : k \notin Range(IndexKeys))

RECURSIVE SumSquares(_, _, _)
SumSquares(data, samples, keys) ==
    IF keys = <<>> THEN 0
    ELSE LET c == CountOf(data, samples, Head(keys)) IN
         c * c + SumSquares(data, samples, Tail(keys))

\* 1 - sum over labels of (count / n)^2; with no sample the loop body never
\* runs and the score stays 1
gini(data, samples) ==
    LET n == Len(samples) IN
    IF n = 0 THEN RatOne
    ELSE Rat(n * n - SumSquares(data, samples, OwnKeys(data, samples)), n * n)

RECURSIVE MajorityScan(_, _, _, _, _)
MajorityScan(data, samples, keys, best, bestCount) ==
    IF keys = <<>> THEN best
    ELSE LET c == CountOf(data, samples, Head(keys)) IN
         IF c > bestCount
         THEN MajorityScan(data, samples, Tail(keys), Head(keys), c)
         ELSE MajorityScan(data, samples, Tail(keys), best, bestCount)

majorityLabel(data, samples) ==
    MajorityScan(data, samples, OwnKeys(data, samples), "", -1)

\* ------------------------------------------------------------ split search
\* array[index], index counted from 0 as in the code; undefined past the end
ElementAt(array, index) ==
    IF index + 1 \in 1..Len(array) THEN array[index + 1] ELSE Undefined

\* s.features[fi]
FeatureOf(data, i, fi) == ElementAt(data[i].features, fi)

\* value <= th and value > th on a doubled threshold: both are false when the
\* value is undefined or the threshold is NaN
LessEq(value, th2) == value # Undefined /\ th2 # NaN /\ 2 * value <= th2
Greater(value, th2) == value # Undefined /\ th2 # NaN /\ 2 * value > th2

\* samples[0]?.features.length ?? 0
nFeaturesOf(data, samples) ==
    IF samples = <<>> THEN 0 ELSE Len(data[samples[1]].features)

RECURSIVE InsertSorted(_, _)
InsertSorted(v, s) ==
    IF s = <<>> THEN <<v>>
    ELSE IF v < Head(s) THEN <<v>> \o s
         ELSE <<Head(s)>> \o InsertSorted(v, Tail(s))

RECURSIVE SortNumeric(_)
SortNumeric(s) ==
    IF s = <<>> THEN <<>> ELSE InsertSorted(Head(s), SortNumeric(Tail(s)))

\* .sort((a, b) => a - b): the comparator orders the numbers, undefined
\* elements go to the end
SortArray(s) ==
    SortNumeric(SelectSeq(s, LAMBDA v : v # Undefined))
    \o SelectSeq(s, LAMBDA v : v = Undefined)

FeatureValues(data, samples, fi) ==
    SortArray([i \in 1..Len(samples) |-> FeatureOf(data, samples[i], fi)])

\* the upper of the two values taken as the candidate
Midpoint2Upper(a, b) == IF a = Undefined \/ b = Undefined THEN NaN ELSE b + b

\* twice (a + b) / 2
Midpoint2(a, b) == IF a = Undefined \/ b = Undefined THEN NaN ELSE a + b

\* one candidate per pair of adjacent sorted values, duplicates included;
\* each entry is twice the midpoint
Thresholds(values) ==
    IF Len(values) < 2 THEN <<>>
    ELSE [i \in 1..(Len(values) - 1) |-> Midpoint2(values[i], values[i + 1])]

LeftOf(data, samples, fi, th2) ==
    SelectSeq(samples, LAMBDA i : LessEq(FeatureOf(data, i, fi), th2))

RightOf(data, samples, fi, th2) ==
    SelectSeq(samples, LAMBDA i : Greater(FeatureOf(data, i, fi), th2))

\* the plain mean of the two impurities, the sizes left out
WeightedUnsized(nl, impL, nr, impR, n) ==
    RatMul(Rat(1, 2), RatAdd(impL, impR))

\* (left.length / n) * impL + (right.length / n) * impR
Weighted(nl, impL, nr, impR, n) ==
    RatAdd(RatMul(Rat(nl, n), impL), RatMul(Rat(nr, n), impR))

InitialBest ==
    [featureIndex |-> -1, threshold |-> 0, infoGain |-> RatZero,
     impurityLeft |-> RatZero, impurityRight |-> RatZero]

\* >= in place of > : on a tie the later candidate replaces the earlier
BetterThanOrEqual(infoGain, best) == ~RatGT(best.infoGain, infoGain)

\* the candidate replaces best only on a strictly greater gain
BetterThan(infoGain, best) == RatGT(infoGain, best.infoGain)

\* body of thresholds.forEach
EvalThreshold(data, samples, fi, th2, best) ==
    LET left == LeftOf(data, samples, fi, th2)
        right == RightOf(data, samples, fi, th2)
    IN  IF Len(left) = 0 \/ Len(right) = 0 THEN best
        ELSE LET impL == gini(data, left)
                 impR == gini(data, right)
                 weighted == Weighted(Len(left), impL, Len(right), impR, Len(samples))
                 infoGain == Reduced(RatSub(gini(data, samples), weighted))
             IN  IF BetterThan(infoGain, best)
                 THEN [featureIndex |-> fi, threshold |-> th2, infoGain |-> infoGain,
                       impurityLeft |-> impL, impurityRight |-> impR]
                 ELSE best

RECURSIVE ScanThresholds(_, _, _, _, _)
ScanThresholds(data, samples, fi, ths, best) ==
    IF ths = <<>> THEN best
    ELSE \* next is the value of best after this threshold, computed once
         CHOOSE result \in
             {ScanThresholds(data, samples, fi, Tail(ths), next) :
                 next \in {EvalThreshold(data, samples, fi, Head(ths), best)}} : TRUE

RECURSIVE ScanFeatures(_, _, _, _)
ScanFeatures(data, samples, fi, best) ==
    IF fi >= nFeaturesOf(data, samples) THEN best
    ELSE \* next is the value of best after this feature, computed once
         CHOOSE result \in
             {ScanFeatures(data, samples, fi + 1, next) :
                 next \in {ScanThresholds(data, samples, fi,
                               Thresholds(FeatureValues(data, samples, fi)), best)}} : TRUE

\* the result null is the record whose featureIndex is still -1
findBestSplit(data, samples) == ScanFeatures(data, samples, 0, InitialBest)

IsNullSplit(best) == best.featureIndex = -1

\* ------------------------------------------------------------ state
VARIABLES
    dataset,          \* the caller's data set
    maxDepth,         \* the caller's maxDepth
    minSamplesSplit,  \* the caller's minSamplesSplit
    NODE_ID,          \* the module-level id counter
    gen,              \* per build: where its generator is suspended
    args,             \* per build: the arguments the generator was called with
    queue,            \* per build: the local queue, as node keys
    nodes,            \* per build: the nodes created so far, by key
    cur,              \* per build: the local node of the interrupted iteration
    events,           \* per build: the events the caller has received
    lastResult,       \* per build: what the last next() returned
    extra,            \* per build: requests made after the generator returned
    query,            \* the point classify was last called with
    answer,           \* what that call returned
    fresh,            \* no node has changed since that call
    handler,          \* stepping page: "none" when the builder is driven without
                      \* the page, else "idle" or the handler that is running
    stepperRef,       \* stepping page: the build stepperRef.current holds, 0 for null
    rootState,        \* stepping page: the root state, a node key of that build or Null
    pageData,         \* visualizer page: the data state
    tree,             \* visualizer page: the tree state, its nodes in preorder, <<>> for null
    minSamples,       \* visualizer page: the minSamples state
    isBuilding,       \* visualizer page: the isBuilding state
    currentNode,      \* visualizer page: the currentNode state
    animations,       \* visualizer page: the animateTreeBuilding calls awaiting their
                      \* timer, in the order the timers were set
    vizMaxDepth,      \* visualizer page: the maxDepth state
    selectedPoint,    \* visualizer page: the selectedPoint state, <<>> for null
    predictionPath,   \* visualizer page: the predictionPath state
    afterReset        \* Reset Tree was pressed and no build has been asked for since

vars == <<dataset, maxDepth, minSamplesSplit, NODE_ID, gen, args, queue, nodes,
          cur, events, lastResult, extra, query, answer, fresh,
          handler, stepperRef, rootState,
          pageData, tree, minSamples, isBuilding, currentNode, animations,
          vizMaxDepth, selectedPoint, predictionPath, afterReset>>

builderVars == <<dataset, maxDepth, minSamplesSplit, NODE_ID, gen, args, queue, nodes,
                 cur, events, lastResult, extra, query, answer, fresh,
                 handler, stepperRef, rootState>>

visualizerVars == <<pageData, tree, minSamples, isBuilding, currentNode, animations,
                    vizMaxDepth, selectedPoint, predictionPath, afterReset>>

\* the id of no node (currentNode null)
NoNode == <<"null">>

\* what classify returns: a label, or null; NoAnswer before the first call
NoAnswer == [kind |-> "none", label |-> ""]
NullAnswer == [kind |-> "null", label |-> ""]
LabelAnswer(l) == [kind |-> "label", label |-> l]

NoArgs == [samples |-> <<>>, maxDepth |-> 0, minSamplesSplit |-> 0]

\* let NODE_ID = 1
InitialNodeId == 1

InitBuilds ==
    /\ NODE_ID = InitialNodeId
    /\ gen = [b \in Builds |-> "none"]
    /\ args = [b \in Builds |-> NoArgs]
    /\ queue = [b \in Builds |-> <<>>]
    /\ nodes = [b \in Builds |-> <<>>]
    /\ cur = [b \in Builds |-> 0]
    /\ events = [b \in Builds |-> <<>>]
    /\ lastResult = [b \in Builds |-> "none"]
    /\ extra = [b \in Builds |-> 0]
    /\ query = <<>>
    /\ answer = NoAnswer
    /\ fresh = FALSE
    /\ stepperRef = 0
    /\ rootState = Null
    /\ pageData = <<>>
    /\ tree = <<>>
    /\ minSamples = 5                  \* useState(5)
    /\ isBuilding = FALSE
    /\ currentNode = NoNode
    /\ animations = <<>>
    /\ vizMaxDepth = 3                 \* useState(3)
    /\ selectedPoint = <<>>
    /\ predictionPath = <<>>
    /\ afterReset = FALSE

Init ==
    /\ handler = "none"
    /\ dataset \in Datasets(0, MaxSamples)
    /\ \E p \in Params : maxDepth = p[1] /\ minSamplesSplit = p[2]
    /\ InitBuilds

InitPair ==
    /\ handler = "none"
    /\ dataset \in Datasets(1, PairMaxSamples)
    /\ maxDepth \in PairDepthArgs
    /\ minSamplesSplit \in PairMinSplitArgs
    /\ InitBuilds

\* ------------------------------------------------------------ builder
\* the reset left out: the build goes on from wherever the counter stands
resetIdsMissing == NODE_ID

\* resetIds()
resetIds == 1

\* id: NODE_ID++ : the node takes the counter's value, the counter moves on
IdTaken(counter) == counter

\* id: NODE_ID : the counter is read and never incremented
IdAfterMissing(counter) == counter

IdAfter(counter) == counter + 1

createNode(data, samplesLocal, depth, id) ==
    [id |-> id, samples |-> samplesLocal, depth |-> depth,
     prediction |-> majorityLabel(data, samplesLocal),
     impurity |-> gini(data, samplesLocal),
     featureIndex |-> Undefined, threshold |-> Undefined, infoGain |-> UndefinedRat,
     left |-> Undefined, right |-> Undefined]

\* the depth test taken with > : one more level is built
StopCriteriaDepthGT(node, a) ==
    \/ node.depth > a.maxDepth
    \/ Len(node.samples) < a.minSamplesSplit
    \/ node.impurity.num = 0

\* the depth test left out
StopCriteriaNoDepth(node, a) ==
    \/ Len(node.samples) < a.minSamplesSplit
    \/ node.impurity.num = 0

\* node.depth >= maxDepth || node.samples.length < minSamplesSplit || node.impurity === 0
StopCriteria(node, a) ==
    \/ node.depth >= a.maxDepth
    \/ Len(node.samples) < a.minSamplesSplit
    \/ node.impurity.num = 0

\* !best || best.infoGain <= 0
NoUsefulSplit(best) == IsNullSplit(best) \/ RatLE(best.infoGain, RatZero)

\* the children put at the front of the queue: depth-first order
PushChildrenFront(q, leftNode, rightNode) == <<leftNode, rightNode>> \o q

\* queue.push(leftNode); queue.push(rightNode)
PushChildren(q, leftNode, rightNode) == Append(Append(q, leftNode), rightNode)

\* the children pushed before the split event is yielded
QueueAtSplitYieldPushed(rest, leftNode, rightNode) ==
    Append(Append(rest, leftNode), rightNode)

\* what the queue holds while the split event is with the caller
QueueAtSplitYield(rest, leftNode, rightNode) == rest

\* the loop left with one node still pending
LoopConditionEarly(q) == Len(q) > 1

\* while (queue.length > 0)
LoopCondition(q) == Len(q) > 0

Suspended == {"start", "yieldLeaf", "yieldSplit"}

\* The generator runs from where it was suspended to the top of the loop
\* (the actions bind this value, and the result of the split search, once):
\* from the start it resets the counter and seeds the queue with the root;
\* after a split event it pushes the two children; after a leaf event it
\* continues.
Resumed(b) ==
    IF gen[b] = "start"
    THEN [queue |-> <<1>>,
          nodes |-> <<createNode(args[b].samples,
                                 [i \in 1..Len(args[b].samples) |-> i], 0,
                                 IdTaken(resetIds))>>,
          counter |-> IdAfter(resetIds)]
    ELSE IF gen[b] = "yieldSplit"
    THEN [queue |-> PushChildren(queue[b], nodes[b][cur[b]].left, nodes[b][cur[b]].right),
          nodes |-> nodes[b], counter |-> NODE_ID]
    ELSE [queue |-> queue[b], nodes |-> nodes[b], counter |-> NODE_ID]

\* a step of the builder leaves the caller's last answer as it is; the answer
\* is about the present tree for as long as no node changes
AnswerKept ==
    /\ fresh' = (fresh /\ nodes' = nodes)
    /\ UNCHANGED <<query, answer>>

\* startBuilding, the rest of it: setRoot(null), and stepperRef.current is the
\* new generator; nothing when the builder is driven without the page
StartedByPage(b) ==
    IF handler = "none" THEN UNCHANGED <<handler, stepperRef, rootState>>
    ELSE /\ stepperRef' = b
         /\ rootState' = Null
         /\ handler' = handler

\* what the page's handler does with the result of next(); the page is idle
\* when step() begins, and handler is "runToEnd" inside runToEnd(): step() sets the
\* root state to a copy of the node of a split event and to nothing else (a
\* result with done: true has no value, so doneEvent is null); runToEnd()
\* requests again until done: true and then finds doneEvent null as well
HandledByPage(b) ==
    IF handler = "none" THEN UNCHANGED <<handler, stepperRef, rootState>>
    ELSE IF handler = "idle"
    THEN /\ rootState' = IF lastResult'[b] = "split" THEN cur'[b] ELSE rootState
         /\ handler' = handler
         /\ stepperRef' = stepperRef
    ELSE /\ rootState' = rootState
         /\ handler' = IF lastResult'[b] = "finished" THEN "idle" ELSE handler
         /\ stepperRef' = stepperRef

\* the visualizer page is another component

Event(type, node, leftNode, rightNode) ==
    [type |-> type, node |-> node, leftNode |-> leftNode, rightNode |-> rightNode]

Yield(b, position, ev) ==
    /\ gen' = [gen EXCEPT ![b] = position]
    /\ events' = [events EXCEPT ![b] = Append(@, ev)]
    /\ lastResult' = [lastResult EXCEPT ![b] = ev.type]

\* return instead of yield: the root is the generator's return value and no
\* done event is part of the sequence
ReturnDone(evs) == evs

\* yield { type: 'done', root }
YieldDone(evs) == Append(evs, Event("done", 1, 0, 0))

\* node.right = null left out
MakeLeafLeftOnly(ns, node) == [ns EXCEPT ![node].left = Null]

\* node.left = null; node.right = null
MakeLeaf(ns, node) == [ns EXCEPT ![node].left = Null, ![node].right = Null]

\* buildTreeStepwise(dataset, maxDepth, minSamplesSplit): the generator object
\* is made, its body has not begun
Call(b) ==
    /\ gen[b] = "none"
    /\ gen' = [gen EXCEPT ![b] = "start"]
    /\ args' = [args EXCEPT ![b] = [samples |-> dataset, maxDepth |-> maxDepth,
                                    minSamplesSplit |-> minSamplesSplit]]
    /\ UNCHANGED <<dataset, maxDepth, minSamplesSplit, NODE_ID, queue, nodes, cur,
                   events, lastResult, extra>>
    /\ AnswerKept
    /\ StartedByPage(b)
    /\ UNCHANGED visualizerVars

\* next(): the dequeued node meets a stopping criterion
RequestLeafStop(b) ==
    /\ gen[b] \in Suspended
    /\ \E r \in {Resumed(b)} :
       /\ LoopCondition(r.queue)
       /\ LET node == Head(r.queue) IN
          /\ StopCriteria(r.nodes[node], args[b])
          /\ nodes' = [nodes EXCEPT ![b] = MakeLeaf(r.nodes, node)]
          /\ queue' = [queue EXCEPT ![b] = Tail(r.queue)]
          /\ cur' = [cur EXCEPT ![b] = node]
          /\ NODE_ID' = r.counter
          /\ Yield(b, "yieldLeaf", Event("node_created", node, 0, 0))
    /\ UNCHANGED <<dataset, maxDepth, minSamplesSplit, args, extra>>
    /\ AnswerKept
    /\ HandledByPage(b)
    /\ UNCHANGED visualizerVars

\* next(): the dequeued node has no split of positive gain
RequestLeafNoSplit(b) ==
    /\ gen[b] \in Suspended
    /\ \E r \in {Resumed(b)} :
       /\ LoopCondition(r.queue)
       /\ LET node == Head(r.queue) IN
          /\ ~StopCriteria(r.nodes[node], args[b])
          /\ \E best \in {findBestSplit(args[b].samples, r.nodes[node].samples)} :
                NoUsefulSplit(best)
          /\ nodes' = [nodes EXCEPT ![b] = MakeLeaf(r.nodes, node)]
          /\ queue' = [queue EXCEPT ![b] = Tail(r.queue)]
          /\ cur' = [cur EXCEPT ![b] = node]
          /\ NODE_ID' = r.counter
          /\ Yield(b, "yieldLeaf", Event("node_created", node, 0, 0))
    /\ UNCHANGED <<dataset, maxDepth, minSamplesSplit, args, extra>>
    /\ AnswerKept
    /\ HandledByPage(b)
    /\ UNCHANGED visualizerVars

\* the left child taken with < : a value equal to the threshold goes nowhere
leftSamplesStrict(data, samples, fi, th2) ==
    SelectSeq(samples, LAMBDA i : LessEq(FeatureOf(data, i, fi), th2)
                                  /\ 2 * FeatureOf(data, i, fi) # th2)

\* node.samples.filter(s => s.features[node.featureIndex] <= node.threshold)
leftSamples(data, samples, fi, th2) ==
    SelectSeq(samples, LAMBDA i : LessEq(FeatureOf(data, i, fi), th2))

\* the right child taken with >= : a value equal to the threshold goes both ways
rightSamplesInclusive(data, samples, fi, th2) ==
    SelectSeq(samples, LAMBDA i : Greater(FeatureOf(data, i, fi), th2)
                                  \/ (LessEq(FeatureOf(data, i, fi), th2)
                                      /\ 2 * FeatureOf(data, i, fi) = th2))

\* node.samples.filter(s => s.features[node.featureIndex] > node.threshold)
rightSamples(data, samples, fi, th2) ==
    SelectSeq(samples, LAMBDA i : Greater(FeatureOf(data, i, fi), th2))

\* node.featureIndex .. node.right = rightNode
SplitNode(data, ns, node, best, counter) ==
    LET n == ns[node]
        ls == leftSamples(data, n.samples, best.featureIndex, best.threshold)
        rs == rightSamples(data, n.samples, best.featureIndex, best.threshold)
        leftNode == createNode(data, ls, n.depth + 1, IdTaken(counter))
        rightNode == createNode(data, rs, n.depth + 1, IdTaken(IdAfter(counter)))
    IN  [ns EXCEPT ![node].featureIndex = best.featureIndex,
                   ![node].threshold = best.threshold,
                   ![node].infoGain = best.infoGain,
                   ![node].left = Len(ns) + 1,
                   ![node].right = Len(ns) + 2]
        \o <<leftNode, rightNode>>

\* next(): the dequeued node is split
RequestSplit(b) ==
    /\ gen[b] \in Suspended
    /\ \E r \in {Resumed(b)} :
       /\ LoopCondition(r.queue)
       /\ ~StopCriteria(r.nodes[Head(r.queue)], args[b])
       /\ \E best \in {findBestSplit(args[b].samples, r.nodes[Head(r.queue)].samples)} :
          LET node == Head(r.queue)
              leftNode == Len(r.nodes) + 1
              rightNode == Len(r.nodes) + 2
          IN
          /\ ~NoUsefulSplit(best)
          /\ \E ns \in {SplitNode(args[b].samples, r.nodes, node, best, r.counter)} :
                nodes' = [nodes EXCEPT ![b] = ns]
          /\ queue' = [queue EXCEPT ![b] =
                          QueueAtSplitYield(Tail(r.queue), leftNode, rightNode)]
          /\ cur' = [cur EXCEPT ![b] = node]
          /\ NODE_ID' = IdAfter(IdAfter(r.counter))
          /\ Yield(b, "yieldSplit", Event("split", node, leftNode, rightNode))
    /\ UNCHANGED <<dataset, maxDepth, minSamplesSplit, args, extra>>
    /\ AnswerKept
    /\ HandledByPage(b)
    /\ UNCHANGED visualizerVars

\* next(): the queue is empty, the done event carries the root
RequestDone(b) ==
    /\ gen[b] \in Suspended
    /\ \E r \in {Resumed(b)} :
       /\ ~LoopCondition(r.queue)
       /\ nodes' = [nodes EXCEPT ![b] = r.nodes]
       /\ queue' = [queue EXCEPT ![b] = r.queue]
       /\ NODE_ID' = r.counter
       /\ events' = [events EXCEPT ![b] = YieldDone(@)]
       /\ gen' = [gen EXCEPT ![b] = "yieldDone"]
       /\ lastResult' = [lastResult EXCEPT ![b] = "done"]
    /\ UNCHANGED <<dataset, maxDepth, minSamplesSplit, args, cur, extra>>
    /\ AnswerKept
    /\ HandledByPage(b)
    /\ UNCHANGED visualizerVars

\* next() after the done event: the body ends, {done: true}
RequestReturn(b) ==
    /\ gen[b] = "yieldDone"
    /\ gen' = [gen EXCEPT ![b] = "returned"]
    /\ lastResult' = [lastResult EXCEPT ![b] = "finished"]
    /\ UNCHANGED <<dataset, maxDepth, minSamplesSplit, NODE_ID, args, queue, nodes,
                   cur, events, extra>>
    /\ AnswerKept
    /\ HandledByPage(b)
    /\ UNCHANGED visualizerVars

\* next() on a generator that has returned: {done: true} again
RequestFinished(b) ==
    /\ gen[b] = "returned"
    /\ extra[b] < MaxExtraRequests
    /\ extra' = [extra EXCEPT ![b] = @ + 1]
    /\ lastResult' = [lastResult EXCEPT ![b] = "finished"]
    /\ UNCHANGED <<dataset, maxDepth, minSamplesSplit, NODE_ID, gen, args, queue,
                   nodes, cur, events>>
    /\ AnswerKept
    /\ HandledByPage(b)
    /\ UNCHANGED visualizerVars

Request(b) ==
    \/ RequestLeafStop(b)
    \/ RequestLeafNoSplit(b)
    \/ RequestSplit(b)
    \/ RequestDone(b)
    \/ RequestReturn(b)
    \/ RequestFinished(b)

\* ------------------------------------------------------------ classifier
\* node && node.left && node.right && node.featureIndex !== undefined
\*      && node.threshold !== undefined
KeepsWalking(ns, node) ==
    /\ node # Null
    /\ ns[node].left > 0
    /\ ns[node].right > 0
    /\ ns[node].featureIndex # Undefined
    /\ ns[node].threshold # Undefined

\* the first feature compared at every node
RoutesLeftFirstFeature(point, n) == LessEq(ElementAt(point, 0), n.threshold)

\* < in place of <= : a value equal to the threshold goes right
RoutesLeftStrict(point, n) ==
    LessEq(ElementAt(point, n.featureIndex), n.threshold)
    /\ 2 * ElementAt(point, n.featureIndex) # n.threshold

\* point[node.featureIndex] <= node.threshold
RoutesLeft(point, n) == LessEq(ElementAt(point, n.featureIndex), n.threshold)

\* the node the while loop of classify ends at (null for a null root)
RECURSIVE WalkFrom(_, _, _)
WalkFrom(ns, node, point) ==
    IF KeepsWalking(ns, node)
    THEN IF RoutesLeft(point, ns[node])
         THEN WalkFrom(ns, ns[node].left, point)
         ELSE WalkFrom(ns, ns[node].right, point)
    ELSE node

\* node?.prediction ?? null
classify(ns, root, point) ==
    LET node == WalkFrom(ns, root, point) IN
    IF node = Null THEN NullAnswer ELSE LabelAnswer(ns[node].prediction)

\* the result kept on the root as a cache
TreeAfterClassifyCached(ns, root, point) ==
    IF root = Null \/ classify(ns, root, point).kind # "label" THEN ns
    ELSE [ns EXCEPT ![root].prediction = classify(ns, root, point).label]

\* classify assigns to no field of any node
TreeAfterClassify(ns, root, point) == ns

\* the root a caller holds of build b: null until the root has been created
RootOf(b) == IF nodes[b] = <<>> THEN Null ELSE 1

\* classify(root, point)
Classify(b, point) ==
    /\ query' = point
    /\ answer' = classify(nodes[b], RootOf(b), point)
    /\ fresh' = TRUE
    /\ nodes' = [nodes EXCEPT ![b] = TreeAfterClassify(nodes[b], RootOf(b), point)]
    /\ UNCHANGED <<dataset, maxDepth, minSamplesSplit, NODE_ID, gen, args, queue,
                   cur, events, lastResult, extra, handler, stepperRef, rootState>>
    /\ UNCHANGED visualizerVars

\* one build, driven by one caller
Next == Call(1) \/ Request(1)

Spec == Init /\ [][Next]_vars

\* a caller that keeps requesting, on inputs the builder's contract allows
InitLive ==
    /\ handler = "none"
    /\ dataset \in Datasets(1, LiveMaxSamples) \cup DeepDatasets
    /\ maxDepth \in LiveDepthArgs
    /\ minSamplesSplit \in LiveMinSplitArgs
    /\ InitBuilds

FairSpec == InitLive /\ [][Next]_vars /\ WF_vars(Next)

\* one build and a caller that classifies points on its root at any time
InitClassify ==
    /\ handler = "none"
    /\ dataset \in Datasets(1, ClassifyMaxSamples)
    /\ \E p \in ClassifyParams : maxDepth = p[1] /\ minSamplesSplit = p[2]
    /\ InitBuilds

NextClassify ==
    \/ Call(1)
    \/ Request(1)
    \/ \E point \in QueryPoints : Classify(1, point)

SpecClassify == InitClassify /\ [][NextClassify]_vars

\* one build with settings under which the root and its children are searched
\* for a split
InitSearch ==
    /\ handler = "none"
    /\ dataset \in Datasets(1, SearchMaxSamples)
    /\ \E p \in ClassifyParams : maxDepth = p[1] /\ minSamplesSplit = p[2]
    /\ InitBuilds

SpecSearch == InitSearch /\ [][Next]_vars

\* one build on a data set of uneven feature vectors
InitRagged ==
    /\ handler = "none"
    /\ dataset \in RaggedDatasets(RaggedMaxSamples)
    /\ \E p \in RaggedParams : maxDepth = p[1] /\ minSamplesSplit = p[2]
    /\ InitBuilds

SpecRagged == InitRagged /\ [][Next]_vars

\* one build on a data set of the scenario's shape
InitScenario ==
    /\ handler = "none"
    /\ dataset \in ScenarioDatasets
    /\ maxDepth = Scenario1Args.maxDepth
    /\ minSamplesSplit = Scenario1Args.minSamplesSplit
    /\ InitBuilds

SpecScenario == InitScenario /\ [][Next]_vars

\* one build on a data set with integer-like labels
InitKeyed ==
    /\ handler = "none"
    /\ dataset \in KeyedDatasets(KeyedMaxSamples)
    /\ \E p \in KeyedParams : maxDepth = p[1] /\ minSamplesSplit = p[2]
    /\ InitBuilds

SpecKeyed == InitKeyed /\ [][Next]_vars

\* ------------------------------------------------------------ stepping page
\* the build whose generator stepperRef.current holds; a generator that
\* nothing refers to any more is dropped, and the next one takes its place
PageBuild == 1

\* the locals of build b after its generator is dropped or replaced
Dropped(b) ==
    /\ queue' = [queue EXCEPT ![b] = <<>>]
    /\ nodes' = [nodes EXCEPT ![b] = <<>>]
    /\ cur' = [cur EXCEPT ![b] = 0]
    /\ events' = [events EXCEPT ![b] = <<>>]
    /\ lastResult' = [lastResult EXCEPT ![b] = "none"]
    /\ extra' = [extra EXCEPT ![b] = 0]

\* startBuilding()
startBuilding ==
    /\ handler = "idle"
    /\ gen' = [gen EXCEPT ![PageBuild] = "start"]
    /\ args' = [args EXCEPT ![PageBuild] =
                   [samples |-> dataset, maxDepth |-> maxDepth,
                    minSamplesSplit |-> minSamplesSplit]]
    /\ Dropped(PageBuild)
    /\ UNCHANGED <<dataset, maxDepth, minSamplesSplit, NODE_ID>>
    /\ AnswerKept
    /\ StartedByPage(PageBuild)
    /\ UNCHANGED visualizerVars

\* step(): nothing without a generator
step ==
    /\ handler = "idle"
    /\ stepperRef # 0
    /\ Request(stepperRef)

\* runToEnd() is entered: nothing without a generator
runToEnd ==
    /\ handler = "idle"
    /\ stepperRef # 0
    /\ gen[stepperRef] # "returned" \/ extra[stepperRef] < MaxExtraRequests
    /\ handler' = "runToEnd"
    /\ UNCHANGED <<dataset, maxDepth, minSamplesSplit, NODE_ID, gen, args, queue,
                   nodes, cur, events, lastResult, extra, query, answer, fresh,
                   stepperRef, rootState>>
    /\ UNCHANGED visualizerVars

\* runToEnd(): one next() of its loop; no other handler runs meanwhile
runToEndLoop ==
    /\ handler = "runToEnd"
    /\ Request(stepperRef)

\* reset()
reset ==
    /\ handler = "idle"
    /\ stepperRef' = 0
    /\ rootState' = Null
    /\ gen' = [gen EXCEPT ![PageBuild] = "none"]
    /\ args' = [args EXCEPT ![PageBuild] = NoArgs]
    /\ Dropped(PageBuild)
    /\ UNCHANGED <<dataset, maxDepth, minSamplesSplit, NODE_ID, handler>>
    /\ AnswerKept
    /\ UNCHANGED visualizerVars

\* classifyPoint() on the test point typed, in tenths (the field's first text
\* is 5.8,3.0,4.3,1.3): nothing without a root
classifyPoint(point) ==
    /\ handler = "idle"
    /\ rootState # Null
    /\ query' = point
    /\ answer' = classify(nodes[stepperRef], rootState, point)
    /\ fresh' = TRUE
    /\ UNCHANGED <<dataset, maxDepth, minSamplesSplit, NODE_ID, gen, args, queue,
                   nodes, cur, events, lastResult, extra, handler, stepperRef,
                   rootState>>
    /\ UNCHANGED visualizerVars

PageKept ==
    /\ UNCHANGED <<NODE_ID, gen, args, queue, nodes, cur, events, lastResult,
                   extra, query, answer, fresh, handler, stepperRef, rootState>>
    /\ UNCHANGED visualizerVars

\* the buttons Load Toy Iris and Clear: setDataset(TOY_IRIS), setDataset([])
setDataset(value) ==
    /\ handler = "idle"
    /\ dataset' = value
    /\ UNCHANGED <<maxDepth, minSamplesSplit>>
    /\ PageKept

\* the Max depth field: Math.max(1, value)
changeMaxDepth(value) ==
    /\ handler = "idle"
    /\ maxDepth' = IF value > 1 THEN value ELSE 1
    /\ UNCHANGED <<dataset, minSamplesSplit>>
    /\ PageKept

\* the Min samples split field: Math.max(2, value)
changeMinSamplesSplit(value) ==
    /\ handler = "idle"
    /\ minSamplesSplit' = IF value > 2 THEN value ELSE 2
    /\ UNCHANGED <<dataset, maxDepth>>
    /\ PageKept

InitStepper ==
    /\ handler = "idle"
    /\ dataset = TOY_IRIS
    /\ maxDepth = 3                    \* the stepping page's useState(3)
    /\ minSamplesSplit = 2             \* the stepping page's useState(2)
    /\ InitBuilds

NextStepper ==
    \/ startBuilding
    \/ step
    \/ runToEnd
    \/ runToEndLoop
    \/ reset
    \/ \E point \in {<<58, 30, 43, 13>>} : classifyPoint(point)
    \/ \E value \in {TOY_IRIS, <<>>} : setDataset(value)
    \/ \E value \in 0..StepperMaxDepth : changeMaxDepth(value)
    \/ \E value \in 0..StepperMaxMinSplit : changeMinSamplesSplit(value)

SpecStepper == InitStepper /\ [][NextStepper]_vars

\* ------------------------------------------------------------ visualizer page
LabelCount(samples, l) ==
    Cardinality({i \in 1..Len(samples) : samples[i].label = l})

\* calculateGini: 0 for no sample, else 1 - sum of (count / total)^2
calculateGini(samples) ==
    LET total == Len(samples)
        a == LabelCount(samples, "A")
        b == LabelCount(samples, "B")
    IN  IF total = 0 THEN RatZero
        ELSE Rat(total * total - a * a - b * b, total * total)

\* s[feature]
Coord(s, feature) == IF feature = "x" THEN s.x ELSE s.y

\* [...new Set(values)] on sorted values
RECURSIVE Unique(_)
Unique(values) ==
    IF Len(values) < 2 THEN values
    ELSE IF values[1] = values[2] THEN Unique(Tail(values))
         ELSE <<values[1]>> \o Unique(Tail(values))

\* the result before any candidate is taken; bestGini is Infinity, the
\* fraction 1/0 that every other is less than
NoSplit ==
    [bestFeature |-> "null", bestThreshold |-> Null, bestLeft |-> <<>>,
     bestRight |-> <<>>, bestGini |-> [num |-> 1, den |-> 0]]

\* body of the for loop of the page's findBestSplit; th2 is twice the threshold
SplitAt(samples, feature, th2, best) ==
    LET left == SelectSeq(samples, LAMBDA s : 2 * Coord(s, feature) <= th2)
        right == SelectSeq(samples, LAMBDA s : 2 * Coord(s, feature) > th2)
    IN  IF Len(left) = 0 \/ Len(right) = 0 THEN best
        ELSE LET leftGini == calculateGini(left)
                 rightGini == calculateGini(right)
                 weightedGini ==
                     Rat(Len(left) * leftGini.num * rightGini.den
                           + Len(right) * rightGini.num * leftGini.den,
                         Len(samples) * leftGini.den * rightGini.den)
             IN  IF RatGT(best.bestGini, weightedGini)
                 THEN [bestFeature |-> feature, bestThreshold |-> th2,
                       bestLeft |-> left, bestRight |-> right,
                       bestGini |-> weightedGini]
                 ELSE best

RECURSIVE ScanUnique(_, _, _, _, _)
ScanUnique(samples, feature, uniqueValues, i, best) ==
    IF i > Len(uniqueValues) - 1 THEN best
    ELSE ScanUnique(samples, feature, uniqueValues, i + 1,
                    SplitAt(samples, feature,
                            uniqueValues[i] + uniqueValues[i + 1], best))

\* the visualizer page's findBestSplit: feature x, then feature y
findBestSplitOfPage(samples) ==
    LET uniqueValues(feature) ==
            Unique(SortNumeric([i \in 1..Len(samples) |->
                                   Coord(samples[i], feature)]))
    IN  ScanUnique(samples, "y", uniqueValues("y"), 1,
                   ScanUnique(samples, "x", uniqueValues("x"), 1, NoSplit))

\* counts['A'] > counts['B'] ? 'A' : 'B': false when either count is undefined
getMajorityClass(samples) ==
    LET a == LabelCount(samples, "A")
        b == LabelCount(samples, "B")
    IN  IF a > 0 /\ b > 0 /\ a > b THEN "A" ELSE "B"

LeafOf(samples, depth, nodeId) ==
    [id |-> nodeId, feature |-> "null", threshold |-> Null,
     prediction |-> getMajorityClass(samples), depth |-> depth,
     samples |-> samples, gini |-> calculateGini(samples), x |-> 0, y |-> 0]

\* buildTree: the nodes of the tree in preorder; a node's id is the path to
\* it, and its children are the nodes whose ids add left and right to it
RECURSIVE buildTree(_, _, _)
buildTree(samples, depth, nodeId) ==
    IF \/ depth >= vizMaxDepth
       \/ Len(samples) < minSamples
       \/ calculateGini(samples).num = 0
    THEN <<LeafOf(samples, depth, nodeId)>>
    ELSE LET best == findBestSplitOfPage(samples) IN
         IF \/ best.bestFeature = "null"
            \/ best.bestThreshold = Null
            \/ best.bestThreshold = 0
         THEN <<LeafOf(samples, depth, nodeId)>>
         ELSE <<[id |-> nodeId, feature |-> best.bestFeature,
                 threshold |-> best.bestThreshold, prediction |-> "null",
                 depth |-> depth, samples |-> samples,
                 gini |-> calculateGini(samples), x |-> 0, y |-> 0]>>
              \o buildTree(best.bestLeft, depth + 1, nodeId \o <<"left">>)
              \o buildTree(best.bestRight, depth + 1, nodeId \o <<"right">>)

\* the x calculateLayout gives the node at the end of path
RECURSIVE LayoutX(_, _, _)
LayoutX(path, x, width) ==
    IF path = <<>> THEN x
    ELSE LET childWidth == width \div 2 IN
         LayoutX(Tail(path),
                 IF Head(path) = "left" THEN x - childWidth \div 2
                 ELSE x + childWidth \div 2,
                 childWidth)

\* calculateLayout(node) from x = 400, y = 50, width = 800
calculateLayout(t) ==
    [i \in 1..Len(t) |->
        [t[i] EXCEPT !.x = LayoutX(Tail(t[i].id), 400, 800),
                     !.y = 50 + 80 * t[i].depth]]

\* predictPoint: the path of node ids
RECURSIVE predictPoint(_, _, _)
predictPoint(point, t, nodeId) ==
    LET node == t[CHOOSE i \in 1..Len(t) : t[i].id = nodeId] IN
    IF node.prediction # "null" THEN <<nodeId>>
    ELSE IF node.feature # "null" /\ node.threshold # Null
    THEN <<nodeId>> \o
         predictPoint(point, t,
                      nodeId \o <<IF 2 * Coord(point, node.feature) <= node.threshold
                                  THEN "left" ELSE "right">>)
    ELSE <<nodeId>>

\* generateData(), also the effect that runs when the page is mounted
generateData(newData) ==
    /\ pageData' = newData
    /\ tree' = <<>>
    /\ currentNode' = NoNode
    /\ predictionPath' = <<>>
    /\ UNCHANGED <<minSamples, vizMaxDepth, isBuilding, animations, selectedPoint,
                   afterReset>>
    /\ UNCHANGED builderVars

\* the Max Depth slider
setMaxDepth(value) ==
    /\ vizMaxDepth' = value
    /\ UNCHANGED <<pageData, tree, minSamples, isBuilding, currentNode, animations,
                   selectedPoint, predictionPath, afterReset>>
    /\ UNCHANGED builderVars

\* the Min Samples per Split slider
setMinSamples(value) ==
    /\ minSamples' = value
    /\ UNCHANGED <<pageData, tree, vizMaxDepth, isBuilding, currentNode, animations,
                   selectedPoint, predictionPath, afterReset>>
    /\ UNCHANGED builderVars

\* animateTreeBuilding() up to its first await: the tree is built, its first
\* node is the current node and the first timer is set
animateTreeBuilding ==
    /\ ~isBuilding /\ pageData # <<>>    \* else the button is disabled
    /\ Len(animations) < MaxAnimations
    /\ LET layoutTree == calculateLayout(buildTree(pageData, 0, <<"root">>)) IN
       /\ isBuilding' = TRUE
       /\ currentNode' = layoutTree[1].id
       /\ animations' = Append(animations, [layoutTree |-> layoutTree, shown |-> 1])
    /\ afterReset' = FALSE
    /\ UNCHANGED <<pageData, tree, minSamples, vizMaxDepth, selectedPoint,
                   predictionPath>>
    /\ UNCHANGED builderVars

\* the timer set first runs out and the loop of its animateTreeBuilding goes
\* on to the next node
animationStep ==
    /\ animations # <<>>
    /\ LET a == Head(animations) IN
       /\ a.shown < Len(a.layoutTree)
       /\ currentNode' = a.layoutTree[a.shown + 1].id
       /\ animations' = Append(Tail(animations), [a EXCEPT !.shown = @ + 1])
    /\ UNCHANGED <<pageData, tree, minSamples, vizMaxDepth, isBuilding,
                   selectedPoint, predictionPath, afterReset>>
    /\ UNCHANGED builderVars

\* the timer set first runs out after the last node: animateTreeBuilding ends
animationEnd ==
    /\ animations # <<>>
    /\ LET a == Head(animations) IN
       /\ a.shown = Len(a.layoutTree)
       /\ tree' = a.layoutTree
    /\ currentNode' = NoNode
    /\ isBuilding' = FALSE
    /\ animations' = Tail(animations)
    /\ UNCHANGED <<pageData, minSamples, vizMaxDepth, selectedPoint, predictionPath,
                   afterReset>>
    /\ UNCHANGED builderVars

\* buildTreeInstantly()
buildTreeInstantly ==
    /\ ~isBuilding /\ pageData # <<>>    \* else the button is disabled
    /\ tree' = calculateLayout(buildTree(pageData, 0, <<"root">>))
    /\ currentNode' = NoNode
    /\ afterReset' = FALSE
    /\ UNCHANGED <<pageData, minSamples, vizMaxDepth, isBuilding, animations,
                   selectedPoint, predictionPath>>
    /\ UNCHANGED builderVars

\* the visualizer page's reset(), the Reset Tree button
resetTree ==
    /\ tree' = <<>>
    /\ currentNode' = NoNode
    /\ selectedPoint' = <<>>
    /\ predictionPath' = <<>>
    /\ isBuilding' = FALSE
    /\ afterReset' = TRUE
    /\ UNCHANGED <<pageData, minSamples, vizMaxDepth, animations>>
    /\ UNCHANGED builderVars

\* handlePointClick(point) on a point of the chart, the index-th of the data
handlePointClick(index) ==
    /\ index <= Len(pageData)
    /\ selectedPoint' = <<pageData[index]>>
    /\ predictionPath' = IF tree # <<>>
                         THEN predictPoint(pageData[index], tree, <<"root">>)
                         ELSE predictionPath
    /\ UNCHANGED <<pageData, tree, minSamples, vizMaxDepth, isBuilding, currentNode,
                   animations, afterReset>>
    /\ UNCHANGED builderVars

InitVisualizer ==
    /\ handler = "none"
    /\ dataset = <<>>
    /\ maxDepth = 3                    \* the stepping page's useState(3)
    /\ minSamplesSplit = 2             \* the stepping page's useState(2)
    /\ InitBuilds

NextVisualizer ==
    \/ \E newData \in GeneratedData : generateData(newData)
    \/ \E value \in {1, 3} : setMaxDepth(value)
    \/ \E value \in {2, 5} : setMinSamples(value)
    \/ animateTreeBuilding
    \/ animationStep
    \/ animationEnd
    \/ buildTreeInstantly
    \/ resetTree
    \/ \E index \in 1..(2 * VizPerClass) : handlePointClick(index)

SpecVisualizer == InitVisualizer /\ [][NextVisualizer]_vars

\* two builds one after the other: once the second has been called, only the
\* second is driven
NextSequential ==
    \/ gen[2] = "none" /\ (Call(1) \/ Request(1))
    \/ gen[1] # "none" /\ Call(2)
    \/ Request(2)

SpecSequential == InitPair /\ [][NextSequential]_vars

\* two builds whose requests come in any order
NextInterleaved == \E b \in Builds : Call(b) \/ Request(b)

SpecInterleaved == InitPair /\ [][NextInterleaved]_vars

\* ------------------------------------------------------------ views
Keys(b) == 1..Len(nodes[b])
Node(b, k) == nodes[b][k]
Data(b) == args[b].samples

IsDecided(n) == n.left # Undefined /\ n.right # Undefined
IsLeaf(n) == n.left = Null /\ n.right = Null
IsSplit(n) == n.left > 0 /\ n.right > 0

SplitKeys(b) == {k \in Keys(b) : IsSplit(Node(b, k))}

\* indices of the events that are about a node (all but the done event)
NodeEvents(b) == {i \in 1..Len(events[b]) : events[b][i].type # "done"}
DoneEvents(b) == {i \in 1..Len(events[b]) : events[b][i].type = "done"}

NoDuplicates(s) == Cardinality(Range(s)) = Len(s)

Completed(b) == gen[b] \in {"yieldDone", "returned"}

\* the nodes the loop of classify visits from node on, the last one included
RECURSIVE WalkPath(_, _, _)
WalkPath(ns, node, point) ==
    IF KeepsWalking(ns, node)
    THEN <<node>> \o WalkPath(ns, IF RoutesLeft(point, ns[node])
                                  THEN ns[node].left ELSE ns[node].right, point)
    ELSE <<node>>

\* ------------------------------------------------------------ C1
\* C1: every split node has two children whose samples are disjoint and
\* together are the node's samples; the left child holds exactly the samples
\* with features[featureIndex] <= threshold, the right child the rest, and
\* neither is empty.
C1_Partition ==
    \A b \in Builds : \A k \in SplitKeys(b) :
        LET n == Node(b, k)
            l == Node(b, n.left).samples
            r == Node(b, n.right).samples
            goesLeft == {i \in Range(n.samples) :
                            2 * Data(b)[i].features[n.featureIndex + 1] <= n.threshold}
        IN  /\ Range(l) \cap Range(r) = {}
            /\ Range(l) \cup Range(r) = Range(n.samples)
            /\ Len(l) + Len(r) = Len(n.samples)
            /\ NoDuplicates(l) /\ NoDuplicates(r)
            /\ Range(l) = goesLeft
            /\ Range(r) = Range(n.samples) \ goesLeft
            /\ l # <<>> /\ r # <<>>

\* a split below the root, under a root whose threshold is a value that some
\* sample has
C1_Witness ==
    /\ \E k \in SplitKeys(1) : k > 1
    /\ 1 \in SplitKeys(1)
    /\ \E i \in Range(Node(1, 1).samples) :
          2 * Data(1)[i].features[Node(1, 1).featureIndex + 1] = Node(1, 1).threshold

\* ------------------------------------------------------------ C3
\* C3: one event per dequeued node, then one done event carrying the root when
\* the queue is empty, then nothing: the events are as many as the nodes plus
\* one, done is last and single, and a request after it returns finished
\* without an event.
C3_EventProtocol ==
    \A b \in Builds :
        LET evs == events[b] IN
        \* the node events are about different nodes, all of them decided,
        \* and each decided node has its event, of the matching type
        /\ \A i, j \in NodeEvents(b) : i # j => evs[i].node # evs[j].node
        /\ {evs[i].node : i \in NodeEvents(b)} = {k \in Keys(b) : IsDecided(Node(b, k))}
        /\ \A i \in NodeEvents(b) :
              (evs[i].type = "node_created") = IsLeaf(Node(b, evs[i].node))
        \* done comes last, once, with the root, when the queue is empty
        /\ \A i \in DoneEvents(b) :
              /\ i = Len(evs)
              /\ evs[i].node = 1
              /\ queue[b] = <<>>
              /\ \A k \in Keys(b) : IsDecided(Node(b, k))
        /\ gen[b] \in {"yieldDone", "returned"} =>
              /\ Len(evs) = Len(nodes[b]) + 1
              /\ evs[Len(evs)].type = "done"
        /\ gen[b] \in Suspended \cup {"none"} => DoneEvents(b) = {}
        \* a request answers with an event until the generator has returned
        /\ (lastResult[b] = "finished") = (gen[b] = "returned")
        /\ extra[b] > 0 => gen[b] = "returned"
        /\ gen[b] \in {"yieldLeaf", "yieldSplit", "yieldDone"} =>
              lastResult[b] = evs[Len(evs)].type

\* a build of five nodes has returned and has been asked once more
C3_Witness ==
    /\ gen[1] = "returned"
    /\ extra[1] > 0
    /\ Len(nodes[1]) = 5
    /\ Len(events[1]) = 6

\* ------------------------------------------------------------ C4
\* C4: a decided node is a leaf exactly when depth >= maxDepth, or it has fewer
\* than minSamplesSplit samples, or its impurity is 0, or the split search
\* finds no candidate, or the best gain is <= 0; otherwise it is split.
C4_MustStop(b, n) ==
    LET best == findBestSplit(Data(b), n.samples) IN
    \/ n.depth >= args[b].maxDepth
    \/ Len(n.samples) < args[b].minSamplesSplit
    \/ RatEq(gini(Data(b), n.samples), RatZero)
    \/ best.featureIndex = -1
    \/ ~RatGT(best.infoGain, RatZero)

C4_LeafRule ==
    \A b \in Builds : \A k \in Keys(b) :
        LET n == Node(b, k) IN
        IsDecided(n) =>
            /\ IsLeaf(n) = C4_MustStop(b, n)
            /\ IsSplit(n) = ~C4_MustStop(b, n)
            /\ IsLeaf(n) =>
                  \E i \in NodeEvents(b) :
                      events[b][i].node = k /\ events[b][i].type = "node_created"
            /\ RatEq(n.impurity, RatZero) => IsLeaf(n)
            /\ (args[b].maxDepth = 0 /\ k = 1) => IsLeaf(n)

\* with maxDepth 0 the root is a leaf although a split of positive gain exists
C4_Witness ==
    /\ args[1].maxDepth = 0
    /\ Len(nodes[1]) = 1
    /\ IsLeaf(Node(1, 1))
    /\ findBestSplit(Data(1), Node(1, 1).samples).featureIndex # -1
    /\ args[1].minSamplesSplit \in 1..Len(Data(1))

\* ------------------------------------------------------------ C5
\* C5: with maxDepth >= 0 no node is deeper than maxDepth; the root has depth
\* 0 and a child has its parent's depth plus one.
C5_DepthBound ==
    \A b \in Builds :
        /\ args[b].maxDepth >= 0 => \A k \in Keys(b) : Node(b, k).depth <= args[b].maxDepth
        /\ nodes[b] # <<>> => Node(b, 1).depth = 0
        /\ \A k \in SplitKeys(b) :
              /\ Node(b, Node(b, k).left).depth = Node(b, k).depth + 1
              /\ Node(b, Node(b, k).right).depth = Node(b, k).depth + 1

\* a node at depth maxDepth that the depth test alone makes a leaf
C5_Witness ==
    \E k \in Keys(1) :
        LET n == Node(1, k) IN
        /\ args[1].maxDepth >= 1
        /\ n.depth = args[1].maxDepth
        /\ IsLeaf(n)
        /\ Len(n.samples) >= args[1].minSamplesSplit
        /\ n.impurity.num # 0
        /\ findBestSplit(Data(1), n.samples).featureIndex # -1

\* ------------------------------------------------------------ C6
\* position of node k in the queue q, 0 when it is not there
PositionIn(q, k) ==
    IF k \in Range(q) THEN CHOOSE i \in 1..Len(q) : q[i] = k ELSE 0

\* C6: the events of one build are in breadth-first order: a node of depth d
\* has its event before any node of depth d + 1, nodes of equal depth in the
\* order they were created; the two children of a parent enter the queue
\* together, left then right, with the request that follows the parent's
\* split event.
C6_BreadthFirst ==
    \A b \in Builds :
        LET evs == events[b] IN
        /\ \A i, j \in NodeEvents(b) :
              i < j =>
                 LET ni == Node(b, evs[i].node)
                     nj == Node(b, evs[j].node)
                 IN  /\ ni.depth <= nj.depth
                     /\ ni.depth = nj.depth => evs[i].node < evs[j].node
        \* a pending node is no shallower than any node that had its event and
        \* at most one level below the head of the queue
        /\ \A i \in 1..Len(queue[b]) :
              /\ \A e \in NodeEvents(b) :
                    Node(b, evs[e].node).depth <= Node(b, queue[b][i]).depth
              /\ Node(b, queue[b][i]).depth <= Node(b, queue[b][1]).depth + 1
        \* the children of a split whose event has been followed by another
        \* request are decided or in the queue, side by side
        /\ \A i \in NodeEvents(b) :
              (evs[i].type = "split" /\ i < Len(evs)) =>
                 LET l == evs[i].leftNode
                     r == evs[i].rightNode
                 IN  /\ IsDecided(Node(b, l)) \/ l \in Range(queue[b])
                     /\ IsDecided(Node(b, r)) \/ r \in Range(queue[b])
                     /\ l \in Range(queue[b]) =>
                           /\ r \in Range(queue[b])
                           /\ PositionIn(queue[b], r) = PositionIn(queue[b], l) + 1
                     /\ IsDecided(Node(b, r)) => IsDecided(Node(b, l))

\* the left child of the root has been split while the right child has had
\* its event: the grandchildren come after the right child
C6_Witness ==
    /\ Len(nodes[1]) = 5
    /\ IsSplit(Node(1, 1))
    /\ IsSplit(Node(1, Node(1, 1).left))
    /\ IsDecided(Node(1, Node(1, 1).right))
    /\ gen[1] = "yieldDone"

\* ------------------------------------------------------------ C7
\* C7: while the caller holds the split event of a node, neither child is in
\* the queue and neither child has been decided; the events of the children
\* come after the parent's split event.
C7_SplitBeforeChildren ==
    \A b \in Builds :
        LET evs == events[b] IN
        /\ gen[b] = "yieldSplit" =>
              LET ev == evs[Len(evs)] IN
              /\ ev.type = "split"
              /\ ev.node = cur[b]
              /\ ev.leftNode = Node(b, ev.node).left
              /\ ev.rightNode = Node(b, ev.node).right
              /\ ev.leftNode \notin Range(queue[b])
              /\ ev.rightNode \notin Range(queue[b])
              /\ ~IsDecided(Node(b, ev.leftNode))
              /\ ~IsDecided(Node(b, ev.rightNode))
        /\ \A i, j \in NodeEvents(b) :
              (evs[i].type = "split" /\ evs[j].node \in {evs[i].leftNode, evs[i].rightNode})
                 => i < j

\* the caller holds the split event of a node below the root while the queue
\* is not empty
C7_Witness ==
    /\ gen[1] = "yieldSplit"
    /\ cur[1] > 1
    /\ queue[1] # <<>>

\* ------------------------------------------------------------ C9
\* C9: within a build the node ids are unique, the root has id 1, ids follow
\* the order of creation (left child before right child) and of the events,
\* and the ids of N nodes are 1..N.
C9_NodeIds ==
    \A k, j \in Keys(1) :
        /\ k # j => Node(1, k).id # Node(1, j).id
        /\ k < j => Node(1, k).id < Node(1, j).id
        /\ Node(1, 1).id = 1
        /\ IsSplit(Node(1, k)) => Node(1, Node(1, k).left).id < Node(1, Node(1, k).right).id
        /\ {Node(1, m).id : m \in Keys(1)} = 1..Len(nodes[1])
        /\ \A e, f \in NodeEvents(1) :
              e < f => Node(1, events[1][e].node).id < Node(1, events[1][f].node).id

\* five nodes have been created and the last of them has had its event
C9_Witness ==
    /\ Len(nodes[1]) = 5
    /\ IsDecided(Node(1, 5))

\* ------------------------------------------------------------ C8
\* C8: on a non-empty data set with maxDepth >= 0 and minSamplesSplit >= 1, a
\* caller that keeps requesting receives the done event, the queue being
\* empty; every split gives each child fewer samples than its parent has.
C8_Terminates ==
    /\ (Len(dataset) > 0 /\ maxDepth >= 0 /\ minSamplesSplit >= 1)
          ~> (DoneEvents(1) # {} /\ queue[1] = <<>>)
    /\ [](\A k \in SplitKeys(1) :
             /\ Len(Node(1, Node(1, k).left).samples) < Len(Node(1, k).samples)
             /\ Len(Node(1, Node(1, k).right).samples) < Len(Node(1, k).samples))

\* the done event of a build that has split twice, on inputs the contract allows
C8_Witness ==
    /\ Len(dataset) > 0 /\ maxDepth >= 0 /\ minSamplesSplit >= 1
    /\ DoneEvents(1) # {}
    /\ Cardinality(SplitKeys(1)) = 2

\* ------------------------------------------------------------ C2, C10
\* what an event shows of its nodes: the type and the ids
EventView(b, i) ==
    LET ev == events[b][i] IN
    [type |-> ev.type,
     id |-> Node(b, ev.node).id,
     leftId |-> IF ev.type = "split" THEN Node(b, ev.leftNode).id ELSE 0,
     rightId |-> IF ev.type = "split" THEN Node(b, ev.rightNode).id ELSE 0]

\* the fields a node is created with
Created(n) ==
    [id |-> n.id, samples |-> n.samples, depth |-> n.depth,
     prediction |-> n.prediction, impurity |-> n.impurity]

MinOf(x, y) == IF x < y THEN x ELSE y

\* C2: two builds whose requests are interleaved do not disturb each other:
\* the node ids of each build are unique, and each build yields the events and
\* ids it yields alone, so that two builds of the same inputs agree on them.
C2_Isolation ==
    /\ \A b \in Builds : \A k, j \in Keys(b) : k # j => Node(b, k).id # Node(b, j).id
    /\ \A b \in Builds : nodes[b] # <<>> => Node(b, 1).id = 1
    /\ args[1] = args[2] =>
          /\ \A k \in Keys(1) \cap Keys(2) : Node(1, k).id = Node(2, k).id
          /\ \A i \in 1..MinOf(Len(events[1]), Len(events[2])) :
                EventView(1, i) = EventView(2, i)

\* C10: two builds run one after the other on the same samples and parameters
\* yield the same events and build the same tree, node ids included, whether
\* or not the first build was driven to its end.
C10_Deterministic ==
    args[1] = args[2] =>
       /\ \A i \in 1..MinOf(Len(events[1]), Len(events[2])) :
             /\ events[1][i] = events[2][i]
             /\ EventView(1, i) = EventView(2, i)
       /\ \A k \in Keys(1) \cap Keys(2) :
             /\ Created(Node(1, k)) = Created(Node(2, k))
             /\ (IsDecided(Node(1, k)) /\ IsDecided(Node(2, k))) => Node(1, k) = Node(2, k)
       /\ (Completed(1) /\ Completed(2)) => (nodes[1] = nodes[2] /\ events[1] = events[2])

\* the first build was left at a split event, the second has run to its done
\* event and has built five nodes
C10_Witness ==
    /\ gen[1] = "yieldSplit"
    /\ gen[2] = "yieldDone"
    /\ Len(nodes[2]) = 5
    /\ Len(nodes[1]) \in {3, 5}

\* ------------------------------------------------------------ C11
\* C11: in a completed tree every training sample is in the samples of one
\* leaf, and classify on the sample's features walks to that leaf and returns
\* its prediction.
C11_ClassificationConsistency ==
    Completed(1) =>
       \A i \in 1..Len(Data(1)) :
          /\ \E k \in Keys(1) : IsLeaf(Node(1, k)) /\ i \in Range(Node(1, k).samples)
          /\ \A k \in Keys(1) :
                (IsLeaf(Node(1, k)) /\ i \in Range(Node(1, k).samples)) =>
                   /\ WalkFrom(nodes[1], RootOf(1), Data(1)[i].features) = k
                   /\ classify(nodes[1], RootOf(1), Data(1)[i].features)
                         = LabelAnswer(Node(1, k).prediction)
                   /\ (fresh /\ query = Data(1)[i].features) =>
                         answer = LabelAnswer(Node(1, k).prediction)

\* classify has answered for a training sample whose value is the root's
\* threshold, in a completed tree of two splits; the answer is not the root's
\* majority label
C11_Witness ==
    /\ Completed(1) /\ fresh
    /\ Cardinality(SplitKeys(1)) = 2
    /\ \E i \in 1..Len(Data(1)) :
          /\ query = Data(1)[i].features
          /\ 2 * query[Node(1, 1).featureIndex + 1] = Node(1, 1).threshold
    /\ answer.kind = "label"
    /\ answer.label # Node(1, 1).prediction

\* ------------------------------------------------------------ C12
\* C12: classify follows one path from the root: at a node that has both
\* children and both routing fields, a value equal to the threshold goes to
\* the left child, a smaller value too, a greater value to the right child;
\* the result is the prediction of the first node on the path that lacks a
\* child or a routing field.
C12_RoutingRule ==
    (fresh /\ nodes[1] # <<>>) =>
       \E m \in 1..Len(nodes[1]) : \E path \in [1..m -> Keys(1)] :
          /\ path[1] = 1
          /\ \A j \in 1..(m - 1) :
                LET n == Node(1, path[j]) IN
                /\ IsSplit(n) /\ n.featureIndex >= 0 /\ n.threshold >= 0
                /\ path[j + 1] \in {n.left, n.right}
                /\ n.featureIndex < Len(query) =>
                      LET value == query[n.featureIndex + 1] IN
                      /\ 2 * value = n.threshold => path[j + 1] = n.left
                      /\ 2 * value < n.threshold => path[j + 1] = n.left
                      /\ 2 * value > n.threshold => path[j + 1] = n.right
          /\ LET n == Node(1, path[m]) IN
             /\ ~IsSplit(n) \/ n.featureIndex = Undefined \/ n.threshold = Undefined
             /\ answer = LabelAnswer(n.prediction)

\* the value asked about equals the root's threshold and goes left, and is
\* greater than the threshold of the left child, where it goes right
C12_Witness ==
    /\ fresh
    /\ Len(nodes[1]) = 5
    /\ IsSplit(Node(1, 1))
    /\ Len(query) = 2
    /\ 2 * query[Node(1, 1).featureIndex + 1] = Node(1, 1).threshold
    /\ LET l == Node(1, Node(1, 1).left) IN
       /\ IsSplit(l)
       /\ 2 * query[l.featureIndex + 1] > l.threshold
       /\ answer = LabelAnswer(Node(1, l.right).prediction)
       /\ answer # LabelAnswer(Node(1, l.left).prediction)

\* ------------------------------------------------------------ C13
\* C13: a call of classify changes no field of any node and nothing else of
\* the build, and a call that repeats the previous point on the unchanged
\* tree returns what the previous call returned.
C13_ReadOnly ==
    [][/\ (query' # query \/ answer' # answer \/ (fresh' /\ ~fresh)) =>
             /\ nodes' = nodes
             /\ UNCHANGED <<NODE_ID, gen, args, queue, cur, events>>
       /\ (fresh /\ fresh' /\ query' = query) => answer' = answer]_vars

\* classify has returned a label other than the root's own prediction while
\* the build is suspended at a split below the root
C13_Witness ==
    /\ fresh
    /\ gen[1] = "yieldSplit"
    /\ cur[1] > 1
    /\ answer.kind = "label"
    /\ answer.label # Node(1, 1).prediction

\* ------------------------------------------------------------ C14
\* C14: when classify is called on the root of a build that has not reached
\* its done event and the walk ends at a node that has not been decided, the
\* result is null.
C14_NoPredictionIncomplete ==
    (/\ fresh
     /\ nodes[1] # <<>>
     /\ ~Completed(1)
     /\ ~IsDecided(Node(1, WalkFrom(nodes[1], RootOf(1), query)))) =>
        answer = NullAnswer

\* ------------------------------------------------------------ C15
\* C15: when a split node on the path of classify has a featureIndex that the
\* point has no element for, the result is an error outcome and not a label.
C15_ShortVectorError ==
    (/\ fresh
     /\ nodes[1] # <<>>
     /\ \E j \in 1..Len(WalkPath(nodes[1], RootOf(1), query)) :
           LET n == Node(1, WalkPath(nodes[1], RootOf(1), query)[j]) IN
           IsSplit(n) /\ n.featureIndex >= Len(query)) =>
        answer.kind # "label"

\* ------------------------------------------------------------ C16
\* C16: a build called with no sample is rejected: it yields no event and
\* creates no node, the root included.
C16_EmptyRejected ==
    (gen[1] # "none" /\ Len(args[1].samples) = 0) =>
        (events[1] = <<>> /\ nodes[1] = <<>>)

\* ------------------------------------------------------------ C17
\* C17: a build called with maxDepth < 0 or minSamplesSplit < 1 is rejected
\* before it begins: it yields no event and creates no node.
C17_InvalidConfigRejected ==
    (gen[1] # "none" /\ (args[1].maxDepth < 0 \/ args[1].minSamplesSplit < 1)) =>
        (events[1] = <<>> /\ nodes[1] = <<>>)

\* ------------------------------------------------------------ C19
\* C19: for every split node the impurity is at least the impurity of the two
\* children weighted by their sizes, the recorded infoGain is that difference,
\* and it is greater than 0.
C19_MonotonicImpurity ==
    \A b \in Builds : \A k \in SplitKeys(b) :
        LET n == Node(b, k)
            l == Node(b, n.left)
            r == Node(b, n.right)
            size == Len(n.samples)
            weighted == Rat(Len(l.samples) * l.impurity.num * r.impurity.den
                              + Len(r.samples) * r.impurity.num * l.impurity.den,
                            size * l.impurity.den * r.impurity.den)
        IN  /\ ~RatGT(weighted, n.impurity)
            /\ RatEq(n.infoGain, RatSub(n.impurity, weighted))
            /\ n.infoGain.den > 0
            /\ RatGT(n.infoGain, RatZero)
            /\ n.impurity = gini(Data(b), n.samples)

\* a split into children of different sizes, one of them impure: the gain is
\* less than the node's impurity
C19_Witness ==
    \E k \in SplitKeys(1) :
        LET n == Node(1, k) IN
        /\ Len(Node(1, n.left).samples) # Len(Node(1, n.right).samples)
        /\ RatGT(n.impurity, n.infoGain)
        /\ RatGT(n.infoGain, RatZero)

\* ------------------------------------------------------------ C18
\* C18: a build called on samples whose feature vectors differ in length is
\* rejected at its start: it yields no event, creates no node and computes no
\* split.
C18_RaggedRejected ==
    (gen[1] # "none" /\ IsRagged(args[1].samples)) =>
        (events[1] = <<>> /\ nodes[1] = <<>> /\ SplitKeys(1) = {})

\* ------------------------------------------------------------ C20
\* what the first scenario leaves behind, but for the root's gain: the root
\* is split on feature 0 at 5.5, the children are pure leaves predicting A
\* (left) and B (right), and the events are split(root), leaf(left),
\* leaf(right), done
Scenario1Outcome ==
    /\ Len(nodes[1]) = 3
    /\ Node(1, 1).featureIndex = 0
    /\ Node(1, 1).threshold = 11
    /\ Node(1, 1).left = 2 /\ Node(1, 1).right = 3
    /\ IsLeaf(Node(1, 2)) /\ IsLeaf(Node(1, 3))
    /\ Node(1, 2).prediction = "A" /\ Node(1, 3).prediction = "B"
    /\ RatEq(Node(1, 2).impurity, RatZero) /\ RatEq(Node(1, 3).impurity, RatZero)
    /\ events[1] = <<Event("split", 1, 2, 3), Event("node_created", 2, 0, 0),
                     Event("node_created", 3, 0, 0), Event("done", 1, 0, 0)>>

\* C20 as stated: in scenario 1 (A at 0 and 1, B at 10 and 11, maxDepth 3,
\* minSamplesSplit 2) the root splits on feature 0 at threshold 5.5 with gain
\* 1.0, the children are pure leaves predicting A and B, and the events are
\* split(root), leaf(left), leaf(right), done.
C20_Scenario1GainOne ==
    (args[1] = Scenario1Args /\ Completed(1)) =>
        (Scenario1Outcome /\ RatEq(Node(1, 1).infoGain, RatOne))

\* C20 as amended: the same with gain 0.5, the root's Gini impurity 0.5 less
\* the impurity 0 of the two pure children.
C20_Scenario1 ==
    (args[1] = Scenario1Args /\ Completed(1)) =>
        /\ Scenario1Outcome
        /\ RatEq(Node(1, 1).infoGain, Rat(1, 2))
        /\ RatEq(Node(1, 1).impurity, Rat(1, 2))

\* the build of scenario 1 has returned
C20_Witness ==
    /\ args[1] = Scenario1Args
    /\ gen[1] = "returned"
    /\ Len(events[1]) = 4

\* ------------------------------------------------------------ C21
\* the nodes of the subtree of node k
RECURSIVE Subtree(_, _)
Subtree(ns, k) ==
    IF IsSplit(ns[k])
    THEN {k} \cup Subtree(ns, ns[k].left) \cup Subtree(ns, ns[k].right)
    ELSE {k}

\* C21: when the done event has been yielded every node is reachable from the
\* root and is either a leaf, with both children null and no featureIndex,
\* threshold or infoGain, or a split node, with both children and the three
\* fields set; no node has one child, none is undecided.
C21_WellFormed ==
    \A b \in Builds :
        Completed(b) =>
           /\ Subtree(nodes[b], 1) = Keys(b)
           /\ \A k \in Keys(b) :
                 LET n == Node(b, k) IN
                 \/ /\ n.left = Null /\ n.right = Null
                    /\ n.featureIndex = Undefined
                    /\ n.threshold = Undefined
                    /\ n.infoGain = UndefinedRat
                 \/ /\ n.left \in Keys(b) /\ n.right \in Keys(b)
                    /\ n.left # n.right
                    /\ n.featureIndex >= 0
                    /\ n.threshold >= 0
                    /\ n.infoGain.den > 0

\* the done event of a tree of two split nodes and three leaves
C21_Witness ==
    /\ gen[1] = "yieldDone"
    /\ Cardinality(SplitKeys(1)) = 2
    /\ Cardinality({k \in Keys(1) : IsLeaf(Node(1, k))}) = 3

\* ------------------------------------------------------------ C22
\* the places of the valid candidates of a split search in the order of the
\* scan: <<feature, position among the feature's thresholds>>, both sides
\* non-empty
CandidateTh(data, samples, c) ==
    Thresholds(FeatureValues(data, samples, c[1]))[c[2]]

CandidateLeft(data, samples, c) ==
    SelectSeq(samples, LAMBDA i :
        2 * data[i].features[c[1] + 1] <= CandidateTh(data, samples, c))

CandidateRight(data, samples, c) ==
    SelectSeq(samples, LAMBDA i :
        2 * data[i].features[c[1] + 1] > CandidateTh(data, samples, c))

ValidCandidates(data, samples) ==
    IF samples = <<>> THEN {}
    ELSE {c \in (0..(Len(data[samples[1]].features) - 1)) \X (1..(Len(samples) - 1)) :
            /\ CandidateLeft(data, samples, c) # <<>>
            /\ CandidateRight(data, samples, c) # <<>>}

\* impurity of the samples less the impurity of the two sides weighted by size
CandidateGain(data, samples, c) ==
    LET l == CandidateLeft(data, samples, c)
        r == CandidateRight(data, samples, c)
        gl == gini(data, l)
        gr == gini(data, r)
    IN  RatSub(gini(data, samples),
               Rat(Len(l) * gl.num * gr.den + Len(r) * gr.num * gl.den,
                   Len(samples) * gl.den * gr.den))

ScannedBefore(c, d) == c[1] < d[1] \/ (c[1] = d[1] /\ c[2] < d[2])

\* the nodes the builder ran the split search on
Searched(b) ==
    {k \in Keys(b) :
        /\ IsDecided(Node(b, k))
        /\ Node(b, k).depth < args[b].maxDepth
        /\ Len(Node(b, k).samples) >= args[b].minSamplesSplit
        /\ Node(b, k).impurity.num # 0}

C23_NullOnlyWithoutCandidates ==
    \A b \in Builds : \A k \in Searched(b) :
        LET best == findBestSplit(Data(b), Node(b, k).samples)
            cands == ValidCandidates(Data(b), Node(b, k).samples)
        IN  /\ IsNullSplit(best) = (cands = {})
            /\ cands # {} =>
                  /\ best.featureIndex >= 0
                  /\ \E c \in cands :
                        best.threshold = CandidateTh(Data(b), Node(b, k).samples, c)

\* ------------------------------------------------------------ C24
\* C24: a candidate threshold that is the midpoint of two equal adjacent
\* values has an empty side and is skipped, so the threshold of a split node
\* is never a value that one of the node's samples has for the split feature.
C24_ThresholdNotAValue ==
    \A b \in Builds :
        /\ \A k \in SplitKeys(b) :
              \A i \in Range(Node(b, k).samples) :
                 2 * Data(b)[i].features[Node(b, k).featureIndex + 1]
                     # Node(b, k).threshold
        /\ \A k \in Searched(b) :
              \A c \in ValidCandidates(Data(b), Node(b, k).samples) :
                 LET values == FeatureValues(Data(b), Node(b, k).samples, c[1])
                 IN  values[c[2]] # values[c[2] + 1]

\* ------------------------------------------------------------ C28
\* C28: when the done event has been yielded the samples of the leaves are
\* pairwise disjoint and together are the data set the build was called with:
\* every sample is in exactly one leaf; and the queue is empty.
C28_LeavesPartitionInput ==
    \A b \in Builds :
        Completed(b) =>
           LET leaves == {k \in Keys(b) : IsLeaf(Node(b, k))} IN
           /\ queue[b] = <<>>
           /\ \A k, j \in leaves :
                 k # j => Range(Node(b, k).samples) \cap Range(Node(b, j).samples) = {}
           /\ UNION {Range(Node(b, k).samples) : k \in leaves} = 1..Len(Data(b))
           /\ \A i \in 1..Len(Data(b)) :
                 Cardinality({k \in leaves : i \in Range(Node(b, k).samples)}) = 1
           /\ \A k \in leaves : NoDuplicates(Node(b, k).samples)

\* the done event of a tree of three leaves under a root whose threshold is a
\* value that a sample has
C28_Witness ==
    /\ Completed(1)
    /\ Cardinality({k \in Keys(1) : IsLeaf(Node(1, k))}) = 3
    /\ \E i \in 1..Len(Data(1)) :
          2 * Data(1)[i].features[Node(1, 1).featureIndex + 1] = Node(1, 1).threshold

\* ------------------------------------------------------------ C25
\* C25: the prediction of every node is a label of highest count among the
\* node's samples and, of the labels of that count, the one that occurs first
\* in the order of the node's samples, whatever the label strings are.
C25_MajorityFirst ==
    \A b \in Builds : \A k \in Keys(b) :
        LET n == Node(b, k)
            count(l) == Cardinality({i \in 1..Len(n.samples) :
                                        Data(b)[n.samples[i]].label = l})
            top == {l \in {Data(b)[i].label : i \in Range(n.samples)} :
                       \A m \in {Data(b)[i].label : i \in Range(n.samples)} :
                          count(m) <= count(l)}
            first == CHOOSE i \in 1..Len(n.samples) :
                        /\ Data(b)[n.samples[i]].label \in top
                        /\ \A j \in 1..(i - 1) : Data(b)[n.samples[j]].label \notin top
        IN  n.samples # <<>> => n.prediction = Data(b)[n.samples[first]].label

\* ------------------------------------------------------------ C26
\* C26: on the stepping page, once the sequence of the current build is
\* exhausted, by Run to end or by stepping, the root state is the root that
\* the done event carries, the completed tree.
C26_RootAfterDone ==
    (handler = "idle" /\ stepperRef # 0 /\ gen[stepperRef] = "returned") =>
        (rootState = 1 /\ Completed(stepperRef))

\* ------------------------------------------------------------ C27
\* C27: on the stepping page, after any presses of Start, Step and Reset the
\* root state is null or the root of the current build, the node with id 1 and
\* depth 0, never a node below it.
C27_RootIsRoot ==
    handler = "idle" =>
       \/ rootState = Null
       \/ /\ stepperRef # 0
          /\ rootState = 1
          /\ Node(stepperRef, rootState).id = 1
          /\ Node(stepperRef, rootState).depth = 0

\* ------------------------------------------------------------ C29
\* C29: on the visualizer page, once Reset Tree is pressed the tree state stays
\* null and isBuilding stays false until Animate Build or Build Instantly is
\* pressed next, also when an animated build was in progress at the press.
C29_ResetHolds == afterReset => (tree = <<>> /\ ~isBuilding)

\* ------------------------------------------------------------ C30
\* C30: on the visualizer page a tree state that is not null was built from
\* the data set the data state holds, whenever New Data was pressed.
C30_TreeOfCurrentData == tree # <<>> => tree[1].samples = pageData

====
